---- MODULE Spec2Model ----
(***************************************************************************)
(* Chatterbox message board: the Message table (server/models.py) and the  *)
(* Flask handlers over it (server/app.py), on the SQLite database the      *)
(* application is configured with.  A handler is modelled step by step,    *)
(* one step for each round trip to the database, so that the requests of   *)
(* two workers can interleave as they do on the threaded server.           *)
(***************************************************************************)
EXTENDS Integers, Sequences, FiniteSets, TLC

\* ------------------------------------------------------------------ bounds
\* Largest rowid the runs let the table reach: a POST that passes validation
\* is sent only while the next rowid is at most MaxId (see Room).
MaxId == 2

\* ------------------------------------------------------------- value sets
\* SQL NULL / Python None in a DateTime column.
NULL == -1

Ids == 1..MaxId
\* Readings of datetime.utcnow(), in ticks finer than a second: a wall clock,
\* so a later reading may be the same as, or earlier than, an earlier one.
\* Readings 0 and 1 fall in one second, reading 2 in the next.
TicksPerSecond == 2
Times == {0, 1}
\* The readings of the runs that list the table.
ListTimes == {0, 1, 2}
Keys == {"body", "username"}
\* The two workers of the server.
Workers == {"w1", "w2"}

\* JSON values under a key.  Text is written as itself ("" is the empty
\* string); values that are not text are written with a leading #: the number
\* 7, the array ["x"], the float NaN (json.loads accepts it), and Python's
\* None for a key that is absent.
None == "#None"
Number7 == "#7"
ListX == "#[x]"
NaN == "#NaN"

\* request.get_json(): has is what Python's `in` tests (the keys of an object,
\* the items of an array); body and username are the values of an object.
Object(has, body, username) ==
  [kind |-> "object", has |-> has, body |-> body, username |-> username]
Array(items) ==
  [kind |-> "array", has |-> items, body |-> None, username |-> None]

NoData == Object({}, None, None)

\* The request bodies the handlers are run on.
Datas ==
  { NoData,
    Object({"username"}, None, "ana"),
    Object({"body"}, "hi", None),
    Object(Keys, "", "ana"),
    Object(Keys, "hi", ""),
    Object(Keys, "hi", "ana"),
    Object(Keys, "7", "ana"),
    Object(Keys, Number7, "ana"),
    Object(Keys, ListX, "ana"),
    Object(Keys, NaN, "ana"),
    Array({"body", "username"}),
    Array({"body"}) }

\* The request bodies of the runs with a failing store, and of the runs with
\* two workers and the runs that list the table.
CommitDatas ==
  { NoData,
    Object(Keys, "hi", "ana"),
    Object(Keys, "7", "ana"),
    Object(Keys, NaN, "ana") }
ConcDatas ==
  { Object(Keys, "hi", "ana"),
    Object(Keys, "7", "ana") }

\* What the store can raise at commit: nothing, an IntegrityError, or another
\* exception (OperationalError, ProgrammingError, StaleDataError, ...).
Failures == {"none", "integrity", "error"}

\* Python truthiness of a JSON value, as `not body` tests it.
Truthy(v) == v \notin {"", None}

\* sqlite3 binding a Python value to a column of TEXT affinity: text is stored
\* as it is, a number as its text, NaN as NULL; a list cannot be bound.
Bind(v) ==
  IF v = ListX THEN [ok |-> FALSE, null |-> FALSE, text |-> ""]
  ELSE IF v = NaN THEN [ok |-> TRUE, null |-> TRUE, text |-> ""]
  ELSE IF v = Number7 THEN [ok |-> TRUE, null |-> FALSE, text |-> "7"]
  ELSE [ok |-> TRUE, null |-> FALSE, text |-> v]

\* ------------------------------------------------------- the Message table
\* A row of the messages table.
Message(id, body, username, created_at, updated_at) ==
  [id |-> id, body |-> body, username |-> username,
   created_at |-> created_at, updated_at |-> updated_at]

\* The rowids present in a table (a sequence of rows in rowid order).
RowIds(tbl) == {tbl[i].id : i \in 1..Len(tbl)}

\* INTEGER PRIMARY KEY on SQLite without AUTOINCREMENT: one more than the
\* largest rowid now in the table, 1 for an empty table.
NextRowid(tbl) == IF Len(tbl) = 0 THEN 1 ELSE tbl[Len(tbl)].id + 1

\* Message.query.get(id): the rows with that primary key (none, or one).
QueryGet(tbl, id) == {tbl[i] : i \in {j \in 1..Len(tbl) : tbl[j].id = id}}

\* INSERT of Message(body=..., username=...): created_at takes its default,
\* updated_at stays NULL, the rowid comes from the table.
InsertRow(tbl, body, username, now) ==
  Append(tbl, Message(NextRowid(tbl), body, username, now, NULL))

\* UPDATE messages SET [body=?,] updated_at=? WHERE id=?: the ORM names only
\* the columns whose value differs from the loaded one (setBody); updated_at
\* is always among them, with the handler's value or else onupdate's.
UpdateRow(tbl, id, setBody, body, now) ==
  [i \in 1..Len(tbl) |->
     IF tbl[i].id = id
       THEN [tbl[i] EXCEPT !.body = IF setBody THEN body ELSE @, !.updated_at = now]
       ELSE tbl[i]]

\* As DeleteRow, without the WHERE clause.
DeleteRow_allRows(tbl, id) == <<>>

\* DELETE FROM messages WHERE id=?
DeleteRow(tbl, id) == SelectSeq(tbl, LAMBDA r : r.id # id)

\* ORDER BY created_at ASC over a scan in rowid order; SQLite's sorter keeps
\* rows with equal keys in scan order.
RECURSIVE InsertSorted(_, _)
InsertSorted(sorted, r) ==
  IF sorted = <<>> THEN <<r>>
  ELSE IF sorted[Len(sorted)].created_at <= r.created_at THEN Append(sorted, r)
  ELSE Append(InsertSorted(SubSeq(sorted, 1, Len(sorted) - 1), r), sorted[Len(sorted)])

\* As OrderByCreatedAt, with the order_by left out: rows in scan order.
OrderByCreatedAt_unordered(tbl) == tbl

RECURSIVE OrderByCreatedAt(_)
OrderByCreatedAt(tbl) ==
  IF tbl = <<>> THEN <<>>
  ELSE InsertSorted(OrderByCreatedAt(SubSeq(tbl, 1, Len(tbl) - 1)), tbl[Len(tbl)])

\* SerializerMixin's datetime_format, '%Y-%m-%d %H:%M:%S', which Message does
\* not override: a timestamp is written to the whole second, None as null.
FormatDatetime(t) == IF t = NULL THEN NULL ELSE t \div TicksPerSecond

\* SerializerMixin.to_dict(): the JSON object of a row.
to_dict(m) ==
  [id |-> m.id, body |-> m.body, username |-> m.username,
   created_at |-> FormatDatetime(m.created_at),
   updated_at |-> FormatDatetime(m.updated_at)]

\* ------------------------------------------------------------- responses
Response(status, json) == [status |-> status, json |-> json]

not_found == Response(404, [error |-> "Resource not found"])
bad_request == Response(400, [error |-> "Bad Request"])
internal_server_error == Response(500, [error |-> "Internal Server Error"])
\* An exception that leaves a handler.  Started by app.run(debug=True), the
\* server answers 500 with the debugger's HTML traceback page, which is no JSON;
\* served without debug, Flask hands an InternalServerError to the 500 handler,
\* which answers with str(error).
unhandled_exception(debugging) ==
  IF debugging
    THEN Response(500, [html |-> "traceback"])
    ELSE Response(500, [error |-> "500 Internal Server Error: The server encountered an internal error and was unable to complete your request. Either the server is overloaded or there is an error in the application."])

\* The response of the except branches: IntegrityError is answered 400 by
\* create_message and update_message, anything else 500.
ErrorResponse(method, failure) ==
  IF failure = "integrity" /\ method \in {"POST", "PATCH"}
    THEN bad_request ELSE internal_server_error

\* As Commit, with the pending change left in place when the commit raises.
Commit_partial(tbl, pending, failed) == pending

\* db.session.commit() inside try, db.session.rollback() in the except
\* branches: the pending change is persisted whole, or not at all.
Commit(tbl, pending, failed) == IF failed THEN tbl ELSE pending

\* ------------------------------------------------------------------ state
\* messages: the messages table, rows in rowid order.
\* workers:  for each worker, the request it is handling or has handled last:
\*           where the handler is (pc), the route (method, id), the JSON body
\*           (data), the object its session holds (loaded), the failure its
\*           commit met (fail), its response (resp), and wrote: whether its
\*           PATCH found its row in place at commit (bookkeeping).
\* issued:   the ids the table has handed out so far (bookkeeping for the
\*           claim about ids; the program keeps no such record).
\* debug:    whether the server runs in debug mode (as app.run starts it) or
\*           the application is served without it.
VARIABLES messages, workers, issued, debug

vars == <<messages, workers, issued, debug>>

\* A worker that has not received a request yet.
Idle ==
  [pc |-> "idle", method |-> "NONE", id |-> 0, data |-> NoData, loaded |-> {},
   fail |-> "none", wrote |-> FALSE, resp |-> Response(0, <<>>)]

\* A worker taking up a request, and a worker answering it.
Begin(method, id, data) == [Idle EXCEPT !.method = method, !.id = id, !.data = data]
Done(wk, response) == [wk EXCEPT !.pc = "done", !.loaded = {}, !.resp = response]

\* A worker is free to take up a request.
Free(w) == workers[w].pc \in {"idle", "done"}

Init ==
  /\ messages = <<>>
  /\ workers = [w \in Workers |-> Idle]
  /\ issued = {}
  /\ debug \in BOOLEAN

\* --------------------------------------------------------------- handlers
\* GET /messages: one SELECT; the objects it loads are serialized as loaded.
get_messages(w) ==
  /\ Free(w)
  /\ workers' = [workers EXCEPT ![w] =
       Done(Begin("GET", 0, NoData),
            Response(200, [i \in 1..Len(messages) |-> to_dict(OrderByCreatedAt(messages)[i])]))]
  /\ UNCHANGED messages

\* Lines 67-75 of create_message: "bad_request" when a check fails,
\* "attribute_error" when data.get is called on something that has no get.
CreateValid(data) ==
  IF data.has = {} \/ ~(\A k \in {"body", "username"} : k \in data.has) THEN "bad_request"
  ELSE IF data.kind # "object" THEN "attribute_error"
  ELSE IF ~Truthy(data.body) \/ ~Truthy(data.username) THEN "bad_request"
  ELSE "ok"

\* create_message, lines 64-75: read the JSON body and validate it.
create_validate(w, data) ==
  /\ Free(w)
  /\ UNCHANGED messages
  /\ LET wk == Begin("POST", 0, data) IN
       IF CreateValid(data) = "bad_request"
         THEN workers' = [workers EXCEPT ![w] = Done(wk, bad_request)]
       ELSE IF CreateValid(data) = "attribute_error"
         THEN workers' = [workers EXCEPT ![w] = Done(wk, unhandled_exception(debug))]
       ELSE workers' = [workers EXCEPT ![w] = [wk EXCEPT !.pc = "commit"]]

\* create_message, lines 78-81 and the except branches: INSERT and COMMIT.
\* now is the reading of the clock for created_at, fail what the store raises.
create_commit(w, now, fail) ==
  /\ workers[w].pc = "commit" /\ workers[w].method = "POST"
  /\ LET wk == workers[w]
         body == Bind(wk.data.body)
         username == Bind(wk.data.username)
         failure == IF ~body.ok \/ ~username.ok THEN "error"
                    ELSE IF body.null \/ username.null THEN "integrity"
                    ELSE fail
     IN /\ messages' = Commit(messages,
                              InsertRow(messages, body.text, username.text, now),
                              failure # "none")
        /\ workers' = [workers EXCEPT ![w] =
             IF failure # "none"
               THEN Done([wk EXCEPT !.fail = failure], ErrorResponse("POST", failure))
               ELSE [wk EXCEPT !.pc = "serialize", !.id = NextRowid(messages)]]

\* create_message, line 84: to_dict() reloads the object the commit expired;
\* ObjectDeletedError when its row is gone, caught on line 89.
create_serialize(w) ==
  /\ workers[w].pc = "serialize" /\ workers[w].method = "POST"
  /\ UNCHANGED messages
  /\ LET current == QueryGet(messages, workers[w].id) IN
       IF current = {}
         THEN workers' = [workers EXCEPT ![w] = Done(@, internal_server_error)]
         ELSE \E m \in current :
                workers' = [workers EXCEPT ![w] = Done(@, Response(201, to_dict(m)))]

\* Lines 105-112 of update_message, as CreateValid.
UpdateValid(data) ==
  IF data.has = {} \/ "body" \notin data.has THEN "bad_request"
  ELSE IF data.kind # "object" THEN "attribute_error"
  ELSE IF ~Truthy(data.body) THEN "bad_request"
  ELSE "ok"

\* As update_lookup, with the body validated before the row is looked up.
update_lookup_validatesFirst(w, id, data) ==
  /\ Free(w)
  /\ UNCHANGED messages
  /\ LET wk == Begin("PATCH", id, data)
         found == QueryGet(messages, id)
     IN IF UpdateValid(data) = "bad_request"
          THEN workers' = [workers EXCEPT ![w] = Done(wk, bad_request)]
        ELSE IF UpdateValid(data) = "attribute_error"
          THEN workers' = [workers EXCEPT ![w] = Done(wk, unhandled_exception(debug))]
        ELSE IF found = {}
          THEN workers' = [workers EXCEPT ![w] = Done(wk, not_found)]
        ELSE workers' = [workers EXCEPT ![w] = [wk EXCEPT !.pc = "commit", !.loaded = found]]

\* update_message, lines 96-112: look the row up, then read and validate the
\* JSON body.
update_lookup(w, id, data) ==
  /\ Free(w)
  /\ UNCHANGED messages
  /\ LET wk == Begin("PATCH", id, data)
         found == QueryGet(messages, id)
     IN IF found = {}
          THEN workers' = [workers EXCEPT ![w] = Done(wk, not_found)]
        ELSE IF UpdateValid(data) = "bad_request"
          THEN workers' = [workers EXCEPT ![w] = Done(wk, bad_request)]
        ELSE IF UpdateValid(data) = "attribute_error"
          THEN workers' = [workers EXCEPT ![w] = Done(wk, unhandled_exception(debug))]
        ELSE workers' = [workers EXCEPT ![w] = [wk EXCEPT !.pc = "commit", !.loaded = found]]

\* As FlushUpdate, with the object merged into the table: a row that is gone
\* is inserted again.
FlushUpdate_merge(tbl, m, setBody, body, now) ==
  IF QueryGet(tbl, m.id) = {}
    THEN [ok |-> TRUE,
          tbl |-> SelectSeq(tbl, LAMBDA r : r.id < m.id)
                    \o <<[m EXCEPT !.body = IF setBody THEN body ELSE @, !.updated_at = now]>>
                    \o SelectSeq(tbl, LAMBDA r : r.id > m.id)]
    ELSE [ok |-> TRUE, tbl |-> UpdateRow(tbl, m.id, setBody, body, now)]

\* The flush of a modified Message m: UPDATE ... WHERE id = m.id; the ORM
\* raises StaleDataError (ok is FALSE) when the statement matches no row.
FlushUpdate(tbl, m, setBody, body, now) ==
  IF QueryGet(tbl, m.id) = {}
    THEN [ok |-> FALSE, tbl |-> tbl]
    ELSE [ok |-> TRUE, tbl |-> UpdateRow(tbl, m.id, setBody, body, now)]

\* update_message, lines 114-119 and the except branches: set body and
\* updated_at on the loaded object, flush and COMMIT.  now is the reading of
\* the clock on line 115, later the reading onupdate takes at the flush when
\* now equals the loaded updated_at, fail what the store raises.  No UPDATE is
\* sent when neither value differs from the loaded one.
update_commit(w, now, later, fail) ==
  /\ workers[w].pc = "commit" /\ workers[w].method = "PATCH"
  /\ \E m \in workers[w].loaded :
       LET wk == workers[w]
           setBody == wk.data.body # m.body
           dirty == setBody \/ now # m.updated_at
           stamp == IF now # m.updated_at THEN now ELSE later
           body == IF setBody THEN Bind(wk.data.body) ELSE Bind(m.body)
           flushed == IF dirty THEN FlushUpdate(messages, m, setBody, body.text, stamp)
                               ELSE [ok |-> TRUE, tbl |-> messages]
           failure == IF dirty /\ ~body.ok THEN "error"
                      ELSE IF ~flushed.ok THEN "error"
                      ELSE IF dirty /\ body.null THEN "integrity"
                      ELSE fail
       IN /\ messages' = Commit(messages, flushed.tbl, failure # "none")
          /\ workers' = [workers EXCEPT ![w] =
               IF failure # "none"
                 THEN Done([wk EXCEPT !.fail = failure], ErrorResponse("PATCH", failure))
                 ELSE [wk EXCEPT
                        !.pc = "serialize",
                        !.wrote = /\ QueryGet(messages, m.id) # {}
                                  /\ \A r \in QueryGet(messages', m.id) :
                                       r.body = Bind(wk.data.body).text]]

\* update_message, line 120: to_dict() reloads the object the commit expired;
\* ObjectDeletedError when its row is gone, caught on line 124.
update_serialize(w) ==
  /\ workers[w].pc = "serialize" /\ workers[w].method = "PATCH"
  /\ UNCHANGED messages
  /\ LET current == QueryGet(messages, workers[w].id) IN
       IF current = {}
         THEN workers' = [workers EXCEPT ![w] = Done(@, internal_server_error)]
         ELSE \E m \in current :
                workers' = [workers EXCEPT ![w] = Done(@, Response(200, to_dict(m)))]

\* delete_message, lines 131-135: look the row up.
delete_lookup(w, id) ==
  /\ Free(w)
  /\ UNCHANGED messages
  /\ LET wk == Begin("DELETE", id, NoData)
         found == QueryGet(messages, id)
     IN IF found = {}
          THEN workers' = [workers EXCEPT ![w] = Done(wk, not_found)]
          ELSE workers' = [workers EXCEPT ![w] = [wk EXCEPT !.pc = "commit", !.loaded = found]]

\* delete_message, lines 138-145: DELETE ... WHERE id = ? and COMMIT; a DELETE
\* that matches no row only makes the ORM warn.
delete_commit(w, fail) ==
  /\ workers[w].pc = "commit" /\ workers[w].method = "DELETE"
  /\ messages' = Commit(messages, DeleteRow(messages, workers[w].id), fail # "none")
  /\ workers' = [workers EXCEPT ![w] =
       IF fail # "none"
         THEN Done([@ EXCEPT !.fail = fail], ErrorResponse("DELETE", fail))
         ELSE Done(@, Response(200, [message |-> <<"Message with id ", @.id,
                                                   " successfully deleted">>]))]

\* ------------------------------------------------- sequential operation
\* The requests the runs send: a POST that will insert is sent only while the
\* table has room under the bound.
Room(data) == CreateValid(data) = "ok" => NextRowid(messages) <= MaxId

\* One worker, one request at a time, a store that does not fail.
Next ==
  \/ get_messages("w1") /\ UNCHANGED <<issued, debug>>
  \/ \E d \in Datas : Room(d) /\ create_validate("w1", d) /\ UNCHANGED <<issued, debug>>
  \/ \E t \in Times : create_commit("w1", t, "none") /\ UNCHANGED <<issued, debug>>
  \/ create_serialize("w1") /\ UNCHANGED <<issued, debug>>
  \/ \E i \in Ids, d \in Datas : update_lookup("w1", i, d) /\ UNCHANGED <<issued, debug>>
  \/ \E t, u \in Times : update_commit("w1", t, u, "none") /\ UNCHANGED <<issued, debug>>
  \/ update_serialize("w1") /\ UNCHANGED <<issued, debug>>
  \/ \E i \in Ids : delete_lookup("w1", i) /\ UNCHANGED <<issued, debug>>
  \/ delete_commit("w1", "none") /\ UNCHANGED <<issued, debug>>

Spec == Init /\ [][Next]_vars

\* One worker, one request at a time, a store whose commit may raise.
NextFault ==
  \/ get_messages("w1") /\ UNCHANGED <<issued, debug>>
  \/ \E d \in CommitDatas : Room(d) /\ create_validate("w1", d) /\ UNCHANGED <<issued, debug>>
  \/ \E t \in Times, f \in Failures : create_commit("w1", t, f) /\ UNCHANGED <<issued, debug>>
  \/ create_serialize("w1") /\ UNCHANGED <<issued, debug>>
  \/ \E i \in Ids, d \in CommitDatas : update_lookup("w1", i, d) /\ UNCHANGED <<issued, debug>>
  \/ \E t, u \in Times, f \in Failures : update_commit("w1", t, u, f) /\ UNCHANGED <<issued, debug>>
  \/ update_serialize("w1") /\ UNCHANGED <<issued, debug>>
  \/ \E i \in Ids : delete_lookup("w1", i) /\ UNCHANGED <<issued, debug>>
  \/ \E f \in Failures : delete_commit("w1", f) /\ UNCHANGED <<issued, debug>>

SpecFault == Init /\ [][NextFault]_vars

\* One worker, one request at a time, a store that does not fail, requests
\* that pass validation, and a clock that reaches the next second.
NextList ==
  \/ get_messages("w1") /\ UNCHANGED <<issued, debug>>
  \/ \E d \in ConcDatas : Room(d) /\ create_validate("w1", d) /\ UNCHANGED <<issued, debug>>
  \/ \E t \in ListTimes : create_commit("w1", t, "none") /\ UNCHANGED <<issued, debug>>
  \/ create_serialize("w1") /\ UNCHANGED <<issued, debug>>
  \/ \E i \in Ids, d \in ConcDatas : update_lookup("w1", i, d) /\ UNCHANGED <<issued, debug>>
  \/ \E t, u \in ListTimes : update_commit("w1", t, u, "none") /\ UNCHANGED <<issued, debug>>
  \/ update_serialize("w1") /\ UNCHANGED <<issued, debug>>
  \/ \E i \in Ids : delete_lookup("w1", i) /\ UNCHANGED <<issued, debug>>
  \/ delete_commit("w1", "none") /\ UNCHANGED <<issued, debug>>

SpecList == Init /\ [][NextList]_vars

\* One worker, one request at a time, with a record of the ids handed out.
Track == /\ issued' = issued \cup (RowIds(messages') \ RowIds(messages))
         /\ UNCHANGED debug

NextIds ==
  \/ get_messages("w1") /\ Track
  \/ \E d \in CommitDatas : Room(d) /\ create_validate("w1", d) /\ Track
  \/ \E t \in Times : create_commit("w1", t, "none") /\ Track
  \/ create_serialize("w1") /\ Track
  \/ \E i \in Ids, d \in CommitDatas : update_lookup("w1", i, d) /\ Track
  \/ \E t, u \in Times : update_commit("w1", t, u, "none") /\ Track
  \/ update_serialize("w1") /\ Track
  \/ \E i \in Ids : delete_lookup("w1", i) /\ Track
  \/ delete_commit("w1", "none") /\ Track

SpecIds == Init /\ [][NextIds]_vars

\* ------------------------------------------------- concurrent operation
\* Two workers, each in its own session, each handling one request; their
\* steps interleave in every order.

\* The server is the one app.run starts, in debug mode.
\* Stores the two requests start from: rows 1..k as POSTs at one clock reading
\* and PATCHes after them leave them.
SeedRows == {Message(i, b, "ana", 0, x) : i \in Ids, b \in {"hi", "7"},
                                          x \in {NULL} \cup Times}
SeedStores ==
  UNION { {s \in [1..k -> SeedRows] : \A i \in 1..k : s[i].id = i} : k \in 0..MaxId }

InitConc ==
  /\ messages \in SeedStores
  /\ workers = [w \in Workers |-> Idle]
  /\ issued = {}
  /\ debug = TRUE

\* The worker has not taken up its request yet.
Fresh(w) == workers[w].pc = "idle"

NextConc ==
  \E w \in Workers :
    \/ Fresh(w) /\ get_messages(w) /\ UNCHANGED <<issued, debug>>
    \/ \E d \in ConcDatas : Fresh(w) /\ Room(d) /\ create_validate(w, d) /\ UNCHANGED <<issued, debug>>
    \/ \E t \in Times, f \in Failures : create_commit(w, t, f) /\ UNCHANGED <<issued, debug>>
    \/ create_serialize(w) /\ UNCHANGED <<issued, debug>>
    \/ \E i \in Ids, d \in ConcDatas : Fresh(w) /\ update_lookup(w, i, d) /\ UNCHANGED <<issued, debug>>
    \/ \E t, u \in Times, f \in Failures : update_commit(w, t, u, f) /\ UNCHANGED <<issued, debug>>
    \/ update_serialize(w) /\ UNCHANGED <<issued, debug>>
    \/ \E i \in Ids : Fresh(w) /\ delete_lookup(w, i) /\ UNCHANGED <<issued, debug>>
    \/ \E f \in Failures : delete_commit(w, f) /\ UNCHANGED <<issued, debug>>

SpecConc == InitConc /\ [][NextConc]_vars


\* ------------------------------------------------------ claim vocabulary
Rows(tbl) == {tbl[i] : i \in 1..Len(tbl)}

\* The JSON body is an object with 'body' and 'username' present, non-empty.
BothPresentNonEmpty(data) ==
  /\ data.kind = "object" /\ {"body", "username"} \subseteq data.has
  /\ Truthy(data.body) /\ Truthy(data.username)

\* The JSON body is an object with 'body' present and non-empty.
BodyPresentNonEmpty(data) ==
  data.kind = "object" /\ "body" \in data.has /\ Truthy(data.body)

\* A JSON error object.
IsError(response) == DOMAIN response.json = {"error"}

\* How often a row is listed by a GET response.
Listed(m, response) ==
  Cardinality({i \in DOMAIN response.json : response.json[i] = to_dict(m)})

\* The steps of the one worker of the sequential runs.
Takes(method) == Free("w1") /\ workers'["w1"] # workers["w1"]
                            /\ workers'["w1"].method = method
Commits(method) == workers["w1"].pc = "commit" /\ workers["w1"].method = method
                                               /\ workers'["w1"] # workers["w1"]
Serializes(method) == workers["w1"].pc = "serialize" /\ workers["w1"].method = method
                                                     /\ workers'["w1"] # workers["w1"]
Answered(method) == workers["w1"].pc = "done" /\ workers["w1"].method = method

\* ------------------------------------------------------------------ claims

\* C1: a POST whose 'body' and 'username' are both present and non-empty is
\* accepted, adds exactly one row -- the submitted body and username, an id no
\* row had, created_at set, updated_at null -- leaves the other rows as they
\* were, and returns 201 with that row, which a GET then lists once.
C1_PostCreatesOneRow ==
  [][ /\ Takes("POST") /\ BothPresentNonEmpty(workers'["w1"].data)
         => workers'["w1"].pc = "commit"
      /\ Commits("POST")
         => /\ workers'["w1"].pc = "serialize"
            /\ Len(messages') = Len(messages) + 1
            /\ SubSeq(messages', 1, Len(messages)) = messages
            /\ LET m == messages'[Len(messages')] IN
                 /\ m.body = workers["w1"].data.body
                 /\ m.username = workers["w1"].data.username
                 /\ m.id \notin RowIds(messages)
                 /\ m.created_at # NULL /\ m.updated_at = NULL
      /\ Serializes("POST")
         => /\ workers'["w1"].resp.status = 201
            /\ \E m \in Rows(messages) :
                 /\ workers'["w1"].resp.json = to_dict(m)
                 /\ Listed(m, Response(200, [i \in 1..Len(messages) |->
                                               to_dict(OrderByCreatedAt(messages)[i])])) = 1
    ]_vars

\* C2: a POST whose JSON body lacks 'body' or 'username', or has either of
\* them empty, returns 400 and leaves the rows as they were.
C2_InvalidPostCreatesNothing ==
  [][ Takes("POST") /\ ~BothPresentNonEmpty(workers'["w1"].data)
      => /\ workers'["w1"].pc = "done"
         /\ workers'["w1"].resp.status = 400
         /\ messages' = messages
    ]_vars

C4_PatchChangesOnlyBodyAndStamp ==
  [][ /\ Takes("PATCH") /\ BodyPresentNonEmpty(workers'["w1"].data)
                        /\ workers'["w1"].id \in RowIds(messages)
         => workers'["w1"].pc = "commit"
      /\ Commits("PATCH")
         => /\ workers'["w1"].pc = "serialize"
            /\ Len(messages') = Len(messages)
            /\ \A i \in 1..Len(messages) :
                 IF messages[i].id = workers["w1"].id
                   THEN /\ messages'[i].body = workers["w1"].data.body
                        /\ messages'[i].updated_at # NULL
                        /\ messages'[i].id = messages[i].id
                        /\ messages'[i].username = messages[i].username
                        /\ messages'[i].created_at = messages[i].created_at
                   ELSE messages'[i] = messages[i]
      /\ Serializes("PATCH")
         => /\ workers'["w1"].resp.status = 200
            /\ \E m \in QueryGet(messages, workers["w1"].id) :
                 workers'["w1"].resp.json = to_dict(m)
    ]_vars

\* C5: a PATCH or DELETE of an id that has no row returns 404 with a JSON
\* error object and leaves the table as it was, whatever the request body is.
C5_UnknownIdIs404 ==
  [][ (Takes("PATCH") \/ Takes("DELETE")) /\ workers'["w1"].id \notin RowIds(messages)
      => /\ workers'["w1"].pc = "done"
         /\ workers'["w1"].resp.status = 404
         /\ IsError(workers'["w1"].resp)
         /\ messages' = messages
    ]_vars

C5_Witness ==
  /\ Answered("PATCH")
  /\ workers["w1"].resp = not_found
  /\ workers["w1"].data = Array({"body"})
  /\ workers["w1"].id \notin RowIds(messages)
  /\ Len(messages) = 1

\* C6: a DELETE of an existing id returns 200 and removes exactly that row,
\* every other row staying as it was; the DELETE or PATCH of the same id that
\* comes next, with no request in between, returns 404.
C6_DeleteRemovesExactlyTheRow ==
  [][ /\ Takes("DELETE") /\ workers'["w1"].id \in RowIds(messages)
         => workers'["w1"].pc = "commit" /\ messages' = messages
      /\ Commits("DELETE")
         => /\ workers'["w1"].resp.status = 200
            /\ workers["w1"].id \in RowIds(messages)
            /\ Rows(messages') = {r \in Rows(messages) : r.id # workers["w1"].id}
            /\ Len(messages') = Len(messages) - 1
      /\ /\ Answered("DELETE") /\ workers["w1"].resp.status = 200
         /\ Takes("DELETE") \/ Takes("PATCH")
         /\ workers'["w1"].id = workers["w1"].id
         => workers'["w1"].pc = "done" /\ workers'["w1"].resp.status = 404
    ]_vars

C6_Witness ==
  /\ Answered("DELETE")
  /\ workers["w1"].resp.status = 200
  /\ workers["w1"].id = 1
  /\ RowIds(messages) = {2}

\* C7: an id is never handed out twice: an id the table has handed out
\* before, to a row since deleted, is not given to a later POST.
C7_IdsNeverReused ==
  [][ \A i \in RowIds(messages') \ RowIds(messages) : i \notin issued ]_vars

\* C8: in every handler a request whose required field is missing or empty
\* gets 400 without the store being read or written; a PATCH with a missing
\* or empty 'body' gets 400 whether or not a row with its id exists.
C8_ValidationAlwaysFirst ==
  [][ \/ Takes("POST") /\ ~BothPresentNonEmpty(workers'["w1"].data)
      \/ Takes("PATCH") /\ ~BodyPresentNonEmpty(workers'["w1"].data)
      => /\ workers'["w1"].pc = "done"
         /\ workers'["w1"].resp.status = 400
         /\ workers'["w1"].loaded = {} /\ workers["w1"].loaded = {}
         /\ messages' = messages
    ]_vars

\* C9 as stated: a commit that fails leaves the rows as they were and is
\* answered with a JSON error object of status 500.
C9_FailedCommitIs500 ==
  [][ (Commits("POST") \/ Commits("PATCH") \/ Commits("DELETE"))
        /\ workers'["w1"].fail # "none"
      => /\ messages' = messages
         /\ IsError(workers'["w1"].resp)
         /\ workers'["w1"].resp.status = 500
    ]_vars

\* C9, amended: a commit that fails leaves the rows as they were and is
\* answered with a JSON error object, never a 2xx: status 400 when the failure
\* is an IntegrityError in POST or PATCH, status 500 otherwise.
C9_FailedCommitChangesNothing ==
  [][ (Commits("POST") \/ Commits("PATCH") \/ Commits("DELETE"))
        /\ workers'["w1"].fail # "none"
      => /\ messages' = messages
         /\ workers'["w1"].pc = "done"
         /\ IsError(workers'["w1"].resp)
         /\ workers'["w1"].resp.status \notin 200..299
         /\ workers'["w1"].resp.status =
              IF workers'["w1"].fail = "integrity" /\ workers["w1"].method # "DELETE"
                THEN 400 ELSE 500
    ]_vars

C9_Witness ==
  /\ Answered("PATCH")
  /\ workers["w1"].fail = "integrity"
  /\ workers["w1"].resp = bad_request
  /\ workers["w1"].data.body = NaN
  /\ \E r \in QueryGet(messages, workers["w1"].id) : r.body = "7" /\ r.updated_at = NULL

\* C10: for a PATCH and a DELETE of the same id on two workers, whatever the
\* order of their lookup, commit and reload steps: once both are answered, a
\* DELETE answered 200 means the row is absent; a PATCH is answered 200 only
\* if its body was written to a row that was there when it committed, and is
\* answered with a JSON error object otherwise.
C10_PatchNeverSurvivesDelete ==
  \A p, d \in Workers :
    /\ workers[p].pc = "done" /\ workers[p].method = "PATCH"
    /\ workers[d].pc = "done" /\ workers[d].method = "DELETE"
    /\ workers[p].id = workers[d].id
    => /\ workers[d].resp.status = 200 => workers[d].id \notin RowIds(messages)
       /\ workers[p].resp.status = 200 => workers[p].wrote
       /\ workers[p].resp.status # 200 => IsError(workers[p].resp)

C10_Witness ==
  \E p, d \in Workers :
    /\ workers[p].pc = "done" /\ workers[p].method = "PATCH"
    /\ workers[d].pc = "done" /\ workers[d].method = "DELETE"
    /\ workers[p].id = workers[d].id
    /\ workers[d].resp.status = 200
    /\ workers[p].wrote /\ workers[p].fail = "none"
    /\ workers[p].resp = internal_server_error

====
